---- MODULE Spec2Model ----
(***************************************************************************)
(* Conway's Game of Life engine (class Game, src/src/hooks/useGame.ts      *)
(* lines 93-439) as a state machine.                                       *)
(*                                                                         *)
(* JavaScript runs one task to completion, so a public method is atomic    *)
(* except where it hands control to foreign code: EventEmitter.emit calls  *)
(* the subscribers, and a subscriber may call back into the engine.  Only   *)
(* start and nextGeneration run code after an emit, so only they are cut:   *)
(* the code up to the emit is one action, which pushes a frame on `stack`,  *)
(* and the code after it is the frame's resume action.  While a frame is    *)
(* on the stack a subscriber may call any public method.  In every other    *)
(* method the emits are the last statements; a call a subscriber makes      *)
(* from them finds the engine as it is when the method has returned, so     *)
(* the method is one action and that call is the next one.  A subscriber    *)
(* is taken to return normally (it catches what its own calls throw).       *)
(***************************************************************************)
EXTENDS Integers, Sequences, FiniteSets, TLC

VARIABLES
  size,                  \* Game.size
  cells,                 \* Game.cells: sequence of Cell records, index id + 1
  speed,                 \* Game.speed
  generationNumber,      \* Game.generationNumber
  isRunning,             \* Game.isRunning
  nextGenerationTimerId, \* Game.nextGenerationTimerId
  timers,                \* the host's pending setTimeout callbacks
  stack,                 \* start/nextGeneration suspended in an emit
  called,                \* the method called last
  result,                \* its outcome: "ok", "ignored" (early return), "error"
  emitted,               \* notifications emitted by the latest step, in order
  payload,               \* their arguments: <<>> (none) or <<value>> each
  returned,              \* <<>> or <<value the latest call returned>>
  scenario,              \* history: progress of "fresh, start(), stop()"
  toggles,               \* history: the latest run of toggles of one cell
  held,                  \* <<>> or <<an array getCells() returned, as its holder sees it>>
  given,                 \* history: the constructor's argument, <<>> or <<size>>
  subscribers,           \* EventEmitter.subscribers (of one emitter)
  emitting               \* its emit calls in progress, innermost last

emitterVars == <<subscribers, emitting>>

gameVars == <<size, cells, speed, generationNumber, isRunning,
              nextGenerationTimerId, timers, stack, called, result,
              emitted, payload, returned, scenario, toggles, given, held>>

vars == <<size, cells, speed, generationNumber, isRunning,
          nextGenerationTimerId, timers, stack, called, result,
          emitted, payload, returned, scenario, toggles, given, held,
          subscribers, emitting>>

engine == <<size, cells, speed, generationNumber, isRunning,
            nextGenerationTimerId, timers>>

----------------------------------------------------------------------------
(* Program constants *)

MinSize == 3
MaxSize == 1024
DefaultSize == 128
MinSpeed == 1
MaxSpeed == 100

NeighbourOffsets ==
  << <<-1, 0>>, <<0, 1>>, <<1, 0>>, <<0, -1>>,
     <<-1, 1>>, <<1, 1>>, <<1, -1>>, <<-1, -1>> >>

(* Bounds of the model *)

MaxSubscribers == 3   \* length of an emitter's subscribers array
MaxEmitDepth == 1     \* emit calls nested through callbacks

MaxGen == 2      \* generationNumber is explored up to this value
MaxDepth == 1    \* start/nextGeneration frames nested through callbacks
MaxTimers == 2   \* pending setTimeout callbacks
MaxN == 3        \* largest grid whose every pattern is enumerated

(* Inputs *)

CtorSizes == {3}                 \* new Game(3), as the tests construct it
ResetArgs == {<<>>, <<-1>>, <<0>>, <<2>>, <<3>>, <<1025>>}
TogglePositions == {<<0, 0>>, <<-1, 0>>, <<0, 3>>}
SpeedArgs == {0, 1, 101}

----------------------------------------------------------------------------
(* Pure functions of the engine *)

\* mutant: line and column exchanged
InitCells_Swapped(sz) ==
  [i \in 1..(sz * sz) |->
     [id |-> i - 1, column |-> (i - 1) \div sz, line |-> (i - 1) % sz,
      isAlive |-> FALSE]]

\* mutant: ids are counted from 1
InitCells_OneBased(sz) ==
  [i \in 1..(sz * sz) |->
     [id |-> i, column |-> (i - 1) % sz, line |-> (i - 1) \div sz,
      isAlive |-> FALSE]]

InitCells(sz) ==
  [i \in 1..(sz * sz) |->
     [id |-> i - 1, column |-> (i - 1) % sz, line |-> (i - 1) \div sz,
      isAlive |-> FALSE]]

\* mutant: lines are counted from 1
IsValidPosition_FromOne(sz, line, column) ==
  line > 0 /\ column >= 0 /\ line < sz /\ column < sz

IsValidPosition(sz, line, column) ==
  line >= 0 /\ column >= 0 /\ line < sz /\ column < sz

\* mutant: line and column exchanged in the index
GetCell_Transposed(cs, sz, line, column) == cs[sz * column + line + 1]

GetCell(cs, sz, line, column) == cs[sz * line + column + 1]

\* mutant: a neighbour is looked up whenever its index is in the array, so
\* the grid wraps from the end of a row to the start of the next
CountAliveNeighbours_Wrap(cs, sz, cell) ==
  Cardinality({k \in DOMAIN NeighbourOffsets :
     LET line == cell.line + NeighbourOffsets[k][1]
         column == cell.column + NeighbourOffsets[k][2]
         index == sz * line + column + 1
     IN  /\ index \in DOMAIN cs
         /\ cs[index].isAlive})

CountAliveNeighbours(cs, sz, cell) ==
  Cardinality({k \in DOMAIN NeighbourOffsets :
     LET line == cell.line + NeighbourOffsets[k][1]
         column == cell.column + NeighbourOffsets[k][2]
     IN  /\ IsValidPosition(sz, line, column)
         /\ GetCell(cs, sz, line, column).isAlive})

\* the callback of this.cells.map in nextGeneration
NextCell(cs, sz, cell) ==
  LET aliveNeighboursCount == CountAliveNeighbours(cs, sz, cell)
  IN  IF cell.isAlive
        THEN IF aliveNeighboursCount < 2 \/ aliveNeighboursCount > 3
               THEN [cell EXCEPT !.isAlive = FALSE]
               ELSE cell
        ELSE IF aliveNeighboursCount = 3
               THEN [cell EXCEPT !.isAlive = TRUE]
               ELSE cell

\* mutant: the grid is updated in place, cell by cell, so that a cell sees
\* the new state of the neighbours before it
RECURSIVE StepInPlace(_, _, _)
StepInPlace(cs, sz, i) ==
  IF i > Len(cs) THEN cs
  ELSE StepInPlace([cs EXCEPT ![i] = NextCell(cs, sz, cs[i])], sz, i + 1)

NextCells_InPlace(cs, sz) == StepInPlace(cs, sz, 1)

\* this.cells.map(...) reads this.cells, which is assigned when map is done
NextCells(cs, sz) == [i \in DOMAIN cs |-> NextCell(cs, sz, cs[i])]

\* the cells for which the callback takes the bornCells.push branch
IsBorn(cs, sz, cell) ==
  ~cell.isAlive /\ CountAliveNeighbours(cs, sz, cell) = 3

\* ... and the killedCells.push branch
IsKilled(cs, sz, cell) ==
  /\ cell.isAlive
  /\ (CountAliveNeighbours(cs, sz, cell) < 2 \/ CountAliveNeighbours(cs, sz, cell) > 3)

\* mutant: every cell alive after the step is reported as born
BornCells_WithSurvivors(cs, sz) ==
  LET Test(c) == NextCell(cs, sz, c).isAlive
      pushed == SelectSeq(cs, Test)
  IN  [i \in DOMAIN pushed |-> [pushed[i] EXCEPT !.isAlive = TRUE]]

\* bornCells: the copies { ...cell, isAlive: true }, in the order of the map
BornCells(cs, sz) ==
  LET Test(c) == IsBorn(cs, sz, c)
      pushed == SelectSeq(cs, Test)
  IN  [i \in DOMAIN pushed |-> [pushed[i] EXCEPT !.isAlive = TRUE]]

\* killedCells: the copies { ...cell, isAlive: false }
KilledCells(cs, sz) ==
  LET Test(c) == IsKilled(cs, sz, c)
      pushed == SelectSeq(cs, Test)
  IN  [i \in DOMAIN pushed |-> [pushed[i] EXCEPT !.isAlive = FALSE]]

\* setTimeout returns a handle no pending timer and no stored handle has
FreshTimerId(ts, stored) ==
  CHOOSE i \in 1..(Cardinality(ts) + 2) :
    /\ i # stored
    /\ \A t \in ts : t.id # i
    /\ \A j \in 1..(i - 1) : j = stored \/ \E t \in ts : t.id = j

\* mutant: the delay does not depend on the speed
TimerDelay_Fixed(sp) == 1000

TimerDelay(sp) == 1000 \div sp

----------------------------------------------------------------------------
(* Frames: start or nextGeneration suspended inside emitter.emit *)

\* gen0 is generationNumber when the method was called; nested tells whether
\* a subscriber has changed the engine since
Frame(op, pc) ==
  [op |-> op, pc |-> pc, gen0 |-> generationNumber, nested |-> FALSE]

Top == stack[Len(stack)]

Pop(s) == SubSeq(s, 1, Len(s) - 1)

\* a call by which a subscriber changes the engine is recorded in every
\* suspended frame
Entered(s) == [i \in DOMAIN s |-> [s[i] EXCEPT !.nested = TRUE]]

\* frames that will advance a generation when they resume
PendingAdvances(s) == Cardinality({i \in DOMAIN s : s[i].pc = "onStart"})

(* Objects.  this.cells is an array object of Cell objects, and getCells()  *)
(* returns that array itself (lines 316-318).  held is such an array in the *)
(* hands of a caller: cells is what the caller reads in it now, same tells  *)
(* whether this.cells is still that array object, shared the indices at     *)
(* which it holds the very Cell object this.cells holds, and replaced       *)
(* (history) whether a reset or a load has succeeded since.                 *)

\* cell.isAlive = ... on the Cell objects of this.cells, now cs: the holder
\* of an array sees the write in the objects the array shares
HeldWritten(cs) ==
  [h \in DOMAIN held |->
     [held[h] EXCEPT !.cells = [k \in DOMAIN @ |->
                                  IF k \in held[h].shared THEN cs[k] ELSE @[k]]]]

\* this.cells = this.cells.map(...): a new array object, which holds the
\* Cell object of the old one where the callback returned cell and a new
\* object where it returned a copy
HeldMapped(before, after) ==
  [h \in DOMAIN held |->
     [held[h] EXCEPT !.same = FALSE,
                     !.shared = {k \in @ : after[k] = before[k]}]]

\* this.cells = this.initCells() or data.cells: a new array of new objects
HeldReplaced ==
  [h \in DOMAIN held |->
     [held[h] EXCEPT !.same = FALSE, !.shared = {}, !.replaced = TRUE]]

\* the three ways a method call ends
Ignored ==
  /\ UNCHANGED <<emitterVars, given, held>>
  /\ result' = "ignored"
  /\ emitted' = <<>>
  /\ payload' = <<>>
  /\ returned' = <<>>
  /\ toggles' = <<>>
  /\ UNCHANGED <<engine, stack>>

\* mutant: the method returns where it should throw
Thrown_Returns ==
  /\ UNCHANGED <<emitterVars, given, held>>
  /\ result' = "ignored"
  /\ emitted' = <<>>
  /\ payload' = <<>>
  /\ returned' = <<>>
  /\ toggles' = <<>>
  /\ UNCHANGED <<engine, stack>>

Thrown ==
  /\ UNCHANGED <<emitterVars, given, held>>
  /\ result' = "error"
  /\ emitted' = <<>>
  /\ payload' = <<>>
  /\ returned' = <<>>
  /\ toggles' = <<>>
  /\ UNCHANGED <<engine, stack>>

\* mutant: the notifications are emitted in the opposite order
Returned_Reversed(events) ==
  /\ UNCHANGED <<emitterVars, given>>
  /\ result' = "ok"
  /\ emitted' = [i \in DOMAIN events |-> events[Len(events) + 1 - i]]
  /\ returned' = <<>>
  /\ stack' = Entered(stack)

Returned(events) ==
  /\ UNCHANGED <<emitterVars, given>>
  /\ result' = "ok"
  /\ emitted' = events
  /\ returned' = <<>>
  /\ stack' = Entered(stack)

ScenarioAfter(op) ==
  IF Len(stack) = 0 /\ scenario = "fresh" /\ op = "start" THEN "started"
  ELSE IF Len(stack) = 0 /\ scenario = "started" /\ op = "stop" THEN "stopped"
  ELSE "off"

----------------------------------------------------------------------------
\* mutant: the constructor ignores its argument
CtorSize_Ignored(arg) == DefaultSize

\* size ?? Game.DefaultSize
CtorSize(arg) == IF arg = <<>> THEN DefaultSize ELSE arg[1]

\* constructor, lines 135-151
Init ==
  /\ given \in {<<n>> : n \in CtorSizes}
  /\ size = CtorSize(given)
  /\ speed = MinSpeed
  /\ cells = InitCells(size)
  /\ isRunning = FALSE
  /\ nextGenerationTimerId = -1
  /\ generationNumber = 0
  /\ timers = {}
  /\ stack = <<>>
  /\ called = "constructor"
  /\ result = "ok"
  /\ emitted = <<>>
  /\ payload = <<>>
  /\ returned = <<>>
  /\ scenario = "fresh"
  /\ toggles = <<>>
  /\ held = <<>>
  /\ subscribers = <<>>
  /\ emitting = <<>>

----------------------------------------------------------------------------
(* nextGeneration, lines 392-438: the code before the emit, and after it *)

\* mutant: the counter is incremented twice
NextGenerationBegin_Twice ==
  /\ UNCHANGED <<emitterVars, given>>
  /\ nextGenerationTimerId' = -1
  /\ generationNumber' = generationNumber + 2
  /\ cells' = NextCells(cells, size)
  /\ held' = HeldMapped(cells, cells')
  /\ emitted' = <<"NewGeneration">>
  /\ payload' = << <<[generationNumber |-> generationNumber + 2,
                      bornCells |-> BornCells(cells, size),
                      killedCells |-> KilledCells(cells, size)]>> >>
  /\ returned' = <<>>
  /\ toggles' = <<>>

NextGenerationBegin ==
  /\ UNCHANGED <<emitterVars, given>>
  /\ nextGenerationTimerId' = -1
  /\ generationNumber' = generationNumber + 1
  /\ cells' = NextCells(cells, size)
  /\ held' = HeldMapped(cells, cells')
  /\ emitted' = <<"NewGeneration">>
  /\ payload' = << <<[generationNumber |-> generationNumber + 1,
                      bornCells |-> BornCells(cells, size),
                      killedCells |-> KilledCells(cells, size)]>> >>
  /\ returned' = <<>>
  /\ toggles' = <<>>

\* lines 435-437: whether the timer is armed (the code tests nothing)
ArmsTimer == TRUE

NextGenerationArm ==
  LET id == FreshTimerId(timers, nextGenerationTimerId)
  IN  IF ArmsTimer
        THEN /\ timers' = timers \cup {[id |-> id, delay |-> TimerDelay(speed)]}
             /\ nextGenerationTimerId' = id
        ELSE UNCHANGED <<timers, nextGenerationTimerId>>

\* onNewGeneration.emit() has returned: setTimeout, then return
NextGenerationReturn ==
  /\ Len(stack) > 0
  /\ Top.pc = "onNewGeneration"
  /\ NextGenerationArm
  /\ UNCHANGED <<emitterVars, given, held>>
  /\ stack' = Pop(stack)
  /\ emitted' = <<>>
  /\ payload' = <<>>
  /\ returned' = <<>>
  /\ toggles' = <<>>
  /\ UNCHANGED <<size, cells, speed, generationNumber, isRunning, called,
                 result, scenario>>

\* the host runs a pending timer's callback: () => this.nextGeneration()
TimerFires ==
  /\ Len(stack) = 0
  /\ generationNumber < MaxGen
  /\ \E t \in timers :
       /\ timers' = timers \ {t}
       /\ NextGenerationBegin
       /\ stack' = <<Frame("timer", "onNewGeneration")>>
  /\ called' = "nextGeneration"
  /\ result' = "ok"
  /\ scenario' = IF scenario = "stopped" THEN "stopped" ELSE "off"
  /\ UNCHANGED <<size, speed, isRunning>>

----------------------------------------------------------------------------
(* start, lines 156-166 *)

\* mutant: start does not test isRunning
StartGuard_Never == FALSE

StartGuard == isRunning

Start ==
  /\ called' = "start"
  /\ scenario' = ScenarioAfter("start")
  /\ IF StartGuard
       THEN Ignored
       ELSE /\ Len(stack) < MaxDepth
            /\ generationNumber + PendingAdvances(stack) < MaxGen
            /\ Cardinality(timers) + Len(stack) < MaxTimers
            /\ isRunning' = TRUE
            /\ result' = "ok"
            /\ emitted' = <<"Started">>
            /\ UNCHANGED <<emitterVars, given, held>>
            /\ payload' = << <<>> >>
            /\ returned' = <<>>
            /\ toggles' = <<>>
            /\ stack' = Append(Entered(stack), Frame("start", "onStart"))
            /\ UNCHANGED <<size, cells, speed, generationNumber,
                           nextGenerationTimerId, timers>>

\* onStart.emit() has returned: this.nextGeneration() up to its emit
StartAdvance ==
  /\ Len(stack) > 0
  /\ Top.pc = "onStart"
  /\ NextGenerationBegin
  /\ stack' = [stack EXCEPT ![Len(stack)].pc = "onNewGeneration"]
  /\ UNCHANGED <<size, speed, isRunning, timers, called, result, scenario>>

----------------------------------------------------------------------------
(* stop, lines 171-183 *)

StopGuard == ~isRunning

\* mutant: stop leaves the pending timer armed
ClearTimeout_Noop(ts, id) == ts

\* clearTimeout(id)
ClearTimeout(ts, id) == {t \in ts : t.id # id}

\* mutant: stop also sets the counter back to 0
Stop_Rewinds ==
  /\ called' = "stop"
  /\ scenario' = ScenarioAfter("stop")
  /\ IF StopGuard
       THEN Ignored
       ELSE /\ isRunning' = FALSE
            /\ generationNumber' = 0
            /\ timers' = IF nextGenerationTimerId >= 0
                           THEN ClearTimeout(timers, nextGenerationTimerId)
                           ELSE timers
            /\ Returned(<<"Stopped">>)
            /\ UNCHANGED held
            /\ payload' = << <<>> >>
            /\ toggles' = <<>>
            /\ UNCHANGED <<size, cells, speed, nextGenerationTimerId>>

Stop ==
  /\ called' = "stop"
  /\ scenario' = ScenarioAfter("stop")
  /\ IF StopGuard
       THEN Ignored
       ELSE /\ isRunning' = FALSE
            /\ timers' = IF nextGenerationTimerId >= 0
                           THEN ClearTimeout(timers, nextGenerationTimerId)
                           ELSE timers
            /\ Returned(<<"Stopped">>)
            /\ UNCHANGED held
            /\ payload' = << <<>> >>
            /\ toggles' = <<>>
            /\ UNCHANGED <<size, cells, speed, generationNumber,
                           nextGenerationTimerId>>

----------------------------------------------------------------------------
(* reset, lines 188-209.  The argument is <<>> (none) or <<n>>. *)

\* mutant: reset does not test isRunning
ResetGuard_Never == FALSE

ResetGuard == isRunning

\* size && (size < Game.MinSize || size > Game.MaxSize): 0 is falsy
ResetRejects(arg) ==
  /\ arg # <<>>
  /\ arg[1] # 0
  /\ (arg[1] < MinSize \/ arg[1] > MaxSize)

\* size ?? this.size
ResetSize(arg) == IF arg = <<>> THEN size ELSE arg[1]

Reset(arg) ==
  /\ called' = "reset"
  /\ scenario' = ScenarioAfter("reset")
  /\ IF ResetGuard
       THEN Ignored
       ELSE IF ResetRejects(arg)
         THEN Thrown
         ELSE /\ size' = ResetSize(arg)
              /\ cells' = InitCells(ResetSize(arg))
              /\ generationNumber' = 0
              /\ Returned(<<"Reset", "GridChanged">>)
              /\ held' = HeldReplaced
              /\ payload' = << <<>>, <<[cells |-> cells', size |-> size']>> >>
              /\ toggles' = <<>>
              /\ UNCHANGED <<speed, isRunning, nextGenerationTimerId, timers>>

----------------------------------------------------------------------------
(* randomize, lines 214-227 *)

RandomizeGuard == isRunning

WithAlive(cs, alive) == [i \in DOMAIN cs |-> [cs[i] EXCEPT !.isAlive = alive[i]]]

\* the outcomes of Math.random() > 0.5, cell by cell, that are explored
RandomPatterns(cs) ==
  { [i \in DOMAIN cs |-> TRUE], [i \in DOMAIN cs |-> i % 2 = 1] }

\* mutant: Math.random() > 0.5 is true every time
RandomOutcomes_AllTrue(cs) == {[i \in DOMAIN cs |-> TRUE]}

\* every outcome of Math.random() > 0.5, cell by cell
RandomOutcomes(cs) == [DOMAIN cs -> BOOLEAN]

\* randomize() in which the outcomes of Math.random() > 0.5 are among patterns
RandomizeTo(patterns) ==
  /\ called' = "randomize"
  /\ scenario' = ScenarioAfter("randomize")
  /\ IF RandomizeGuard
       THEN Ignored
       ELSE /\ \E alive \in patterns : cells' = WithAlive(cells, alive)
            /\ Returned(<<"GridChanged">>)
            /\ held' = HeldWritten(cells')
            /\ payload' = << <<[cells |-> cells', size |-> size]>> >>
            /\ toggles' = <<>>
            /\ UNCHANGED <<size, speed, generationNumber, isRunning,
                           nextGenerationTimerId, timers>>

Randomize == RandomizeTo(RandomPatterns(cells))

RandomizeAny == RandomizeTo(RandomOutcomes(cells))

----------------------------------------------------------------------------
(* toggleCell, lines 232-246 *)

ToggleGuard == isRunning

\* mutant: the cell is set alive instead of inverted
Toggled_SetAlive(cs, sz, line, column) ==
  [cs EXCEPT ![sz * line + column + 1].isAlive = TRUE]

\* const cell = this.getCell(line, column); cell.isAlive = !cell.isAlive
Toggled(cs, sz, line, column) ==
  [cs EXCEPT ![sz * line + column + 1].isAlive = ~GetCell(cs, sz, line, column).isAlive]

\* history of the calls toggleCell(line, column) made in a row on one
\* position: the grid before the first of them, and how many (1 or 2)
TogglesAfter(line, column) ==
  IF /\ toggles # <<>>
     /\ toggles[1].line = line
     /\ toggles[1].column = column
     /\ toggles[1].count = 1
    THEN <<[toggles[1] EXCEPT !.count = 2]>>
    ELSE <<[line |-> line, column |-> column, cells0 |-> cells, count |-> 1]>>

ToggleCell(line, column) ==
  /\ called' = "toggleCell"
  /\ scenario' = ScenarioAfter("toggleCell")
  /\ IF ToggleGuard \/ ~IsValidPosition(size, line, column)
       THEN Ignored
       ELSE /\ cells' = Toggled(cells, size, line, column)
            /\ Returned(<<"CellChanged">>)
            /\ held' = HeldWritten(cells')
            /\ payload' = << <<GetCell(cells', size, line, column)>> >>
            /\ toggles' = TogglesAfter(line, column)
            /\ UNCHANGED <<size, speed, generationNumber, isRunning,
                           nextGenerationTimerId, timers>>

----------------------------------------------------------------------------
(* changeSpeed, lines 251-261 *)

\* mutant: the upper limit is not tested
SpeedRejects_LowerOnly(newSpeed) == newSpeed < MinSpeed

SpeedRejects(newSpeed) == newSpeed < MinSpeed \/ newSpeed > MaxSpeed

ChangeSpeed(newSpeed) ==
  /\ called' = "changeSpeed"
  /\ scenario' = ScenarioAfter("changeSpeed")
  /\ IF SpeedRejects(newSpeed)
       THEN Thrown
       ELSE /\ speed' = newSpeed
            /\ Returned(<<"SpeedChanged">>)
            /\ UNCHANGED held
            /\ payload' = << <<speed'>> >>
            /\ toggles' = <<>>
            /\ UNCHANGED <<size, cells, generationNumber, isRunning,
                           nextGenerationTimerId, timers>>

----------------------------------------------------------------------------
(* exportToJson, lines 266-271.  A JSON text is the sequence of its tokens  *)
(* (punctuation other than brackets left out), numbers and booleans in      *)
(* their JSON spelling.                                                     *)

JsonBool(b) == IF b THEN "true" ELSE "false"

\* an object is written key by key in the order its keys were created
CellJson(cell) ==
  <<"{", "id", ToString(cell.id), "column", ToString(cell.column),
    "line", ToString(cell.line), "isAlive", JsonBool(cell.isAlive), "}">>

RECURSIVE CellsJson(_)
CellsJson(cs) ==
  IF cs = <<>> THEN <<>> ELSE CellJson(Head(cs)) \o CellsJson(Tail(cs))

\* mutant: the grid written is a new one, initCells(), not this.cells
JsonStringify_Fresh(sz, cs) ==
  <<"{", "size", ToString(sz), "cells", "[">> \o CellsJson(InitCells(sz)) \o <<"]", "}">>

\* JSON.stringify({ size: this.size, cells: this.cells })
JsonStringify(sz, cs) ==
  <<"{", "size", ToString(sz), "cells", "[">> \o CellsJson(cs) \o <<"]", "}">>

\* mutant: like the methods that change the grid, the export returns early
\* while Running
ExportToJson_IdleOnly ==
  /\ called' = "exportToJson"
  /\ scenario' = ScenarioAfter("exportToJson")
  /\ IF isRunning
       THEN Ignored
       ELSE /\ result' = "ok"
            /\ emitted' = <<>>
            /\ payload' = <<>>
            /\ returned' = <<JsonStringify(size, cells)>>
            /\ UNCHANGED <<emitterVars, given, held>>
            /\ toggles' = <<>>
            /\ UNCHANGED <<engine, stack>>

ExportToJson ==
  /\ called' = "exportToJson"
  /\ scenario' = ScenarioAfter("exportToJson")
  /\ result' = "ok"
  /\ emitted' = <<>>
  /\ payload' = <<>>
  /\ returned' = <<JsonStringify(size, cells)>>
  /\ UNCHANGED <<emitterVars, given, held>>
  /\ toggles' = <<>>
  /\ UNCHANGED <<engine, stack>>

\* getCells(), lines 316-318: return this.cells
GetCells ==
  /\ called' = "getCells"
  /\ scenario' = ScenarioAfter("getCells")
  /\ result' = "ok"
  /\ emitted' = <<>>
  /\ payload' = <<>>
  /\ returned' = <<cells>>
  /\ held' = <<[cells |-> cells, same |-> TRUE, shared |-> DOMAIN cells,
                replaced |-> FALSE]>>
  /\ toggles' = <<>>
  /\ UNCHANGED <<emitterVars, given>>
  /\ UNCHANGED <<engine, stack>>

(* JSON.parse, line 281, of a text of the shape exportToJson writes *)

\* a number written in a text is smaller than the text is long
ParseNumber(tok, text) == CHOOSE n \in 0..Len(text) : ToString(n) = tok

JsonValue(tok, text) ==
  IF tok = "true" THEN TRUE
  ELSE IF tok = "false" THEN FALSE
  ELSE ParseNumber(tok, text)

\* the object whose "{" is text[i]: its four keys, each with the value that
\* follows it
ParseCell(text, i) ==
  LET at == {i + 1, i + 3, i + 5, i + 7}
      keys == {text[j] : j \in at}
  IN  [key \in keys |->
         JsonValue(text[(CHOOSE j \in at : text[j] = key) + 1], text)]

RECURSIVE ParseCells(_, _, _)
ParseCells(text, i, acc) ==
  IF text[i] = "]" THEN acc
  ELSE ParseCells(text, i + 10, Append(acc, ParseCell(text, i)))

\* the document, in the form LoadFromJson takes: a field is <<>> or <<value>>
JsonParse(text) ==
  LET keys == {text[2], text[4]}
  IN  [size |-> IF "size" \in keys
                  THEN <<ParseNumber(text[(CHOOSE j \in {2, 4} : text[j] = "size") + 1], text)>>
                  ELSE <<>>,
       cells |-> IF "cells" \in keys THEN <<ParseCells(text, 6, <<>>)>> ELSE <<>>]

----------------------------------------------------------------------------
(* loadFromJson, lines 276-297.  The parsed document is a record whose     *)
(* fields are <<>> (key absent) or <<value>>.                               *)

LoadGuard == isRunning

\* !('cells' in data && 'size' in data)
LoadRejects(data) == ~(data.cells # <<>> /\ data.size # <<>>)

\* data.key: the value, or undefined when the key is absent
JsGet(field) == IF field = <<>> THEN "undefined" ELSE field[1]

ExamplePattern == {0, 2, 5}   \* ids of (0,0), (0,2), (1,2) on a 3x3 grid

LoadArgs ==
  { [size |-> <<2>>, cells |-> <<InitCells(2)>>],
    [size |-> <<3>>,
     cells |-> <<WithAlive(InitCells(3), [i \in 1..9 |-> (i - 1) \in ExamplePattern])>>],
    [size |-> <<>>, cells |-> <<InitCells(3)>>],
    [size |-> <<3>>, cells |-> <<>>] }

LoadFromJson(data) ==
  /\ called' = "loadFromJson"
  /\ scenario' = ScenarioAfter("loadFromJson")
  /\ IF LoadGuard
       THEN Ignored
       ELSE IF LoadRejects(data)
         THEN Thrown
         ELSE /\ size' = JsGet(data.size)
              /\ cells' = JsGet(data.cells)
              /\ generationNumber' = 0
              /\ Returned(<<"Reset", "GridChanged">>)
              /\ held' = HeldReplaced
              /\ payload' = << <<>>, <<[cells |-> cells', size |-> size']>> >>
              /\ toggles' = <<>>
              /\ UNCHANGED <<speed, isRunning, nextGenerationTimerId, timers>>

\* game.loadFromJson(game.exportToJson())
LoadExported ==
  /\ returned # <<>>
  /\ LoadFromJson(JsonParse(returned[1]))

----------------------------------------------------------------------------
Next ==
  \/ Start
  \/ StartAdvance
  \/ NextGenerationReturn
  \/ TimerFires
  \/ Stop
  \/ \E arg \in ResetArgs : Reset(arg)
  \/ Randomize
  \/ \E pos \in TogglePositions : ToggleCell(pos[1], pos[2])
  \/ \E newSpeed \in SpeedArgs : ChangeSpeed(newSpeed)
  \/ \E data \in LoadArgs : LoadFromJson(data)

Spec == Init /\ [][Next]_vars

----------------------------------------------------------------------------
(* The engine used as the repository uses it: the subscribers only record   *)
(* what they are told (useGame, lines 19-41) and every method is called     *)
(* from the top level.  With no calls nested in callbacks the inputs can be *)
(* wider: more sizes and speeds, exportToJson, and a snapshot whose cells   *)
(* are not the grid of its size.                                            *)

TopLevel == Len(stack) = 0

ResetArgsApi == ResetArgs \cup {<<4>>}
SpeedArgsApi == {0, 1, 2, 100, 101}

\* {"size": 2, "cells": <the nine cells of a 3x3 grid>}
MalformedSnapshot == [size |-> <<2>>, cells |-> <<InitCells(3)>>]

LoadArgsApi == LoadArgs \cup {MalformedSnapshot}

NextApi ==
  \/ TopLevel /\ Start
  \/ StartAdvance
  \/ NextGenerationReturn
  \/ TimerFires
  \/ TopLevel /\ Stop
  \/ TopLevel /\ \E arg \in ResetArgsApi : Reset(arg)
  \/ TopLevel /\ Randomize
  \/ TopLevel /\ \E pos \in TogglePositions : ToggleCell(pos[1], pos[2])
  \/ TopLevel /\ \E newSpeed \in SpeedArgsApi : ChangeSpeed(newSpeed)
  \/ TopLevel /\ \E data \in LoadArgsApi : LoadFromJson(data)
  \/ TopLevel /\ ExportToJson

SpecApi == Init /\ [][NextApi]_vars

----------------------------------------------------------------------------
(* One generation advance from every pattern of every grid up to MaxN x    *)
(* MaxN: an idle engine whose cells were toggled into the pattern (the last *)
(* call a toggleCell out of the grid), started.                             *)

AllPatterns(sz) == {WithAlive(InitCells(sz), alive) : alive \in [1..(sz * sz) -> BOOLEAN]}

InitStep ==
  /\ size \in 2..MaxN
  /\ cells \in AllPatterns(size)
  /\ speed = MinSpeed
  /\ isRunning = FALSE
  /\ nextGenerationTimerId = -1
  /\ generationNumber = 0
  /\ timers = {}
  /\ stack = <<>>
  /\ called = "toggleCell"
  /\ result = "ignored"
  /\ emitted = <<>>
  /\ payload = <<>>
  /\ returned = <<>>
  /\ scenario = "off"
  /\ toggles = <<>>
  /\ held = <<>>
  /\ given = <<3>>
  /\ subscribers = <<>>
  /\ emitting = <<>>

NextStep ==
  \/ Start
  \/ StartAdvance
  \/ NextGenerationReturn

SpecStep == InitStep /\ [][NextStep]_vars

----------------------------------------------------------------------------
(* Export and load again, from every pattern of the grids of JsonSizes and  *)
(* every generationNumber up to MaxGen: an idle engine that was run for     *)
(* that many generations, stopped (which leaves the handle of the cleared   *)
(* timer in nextGenerationTimerId), reset or loaded to the size and toggled *)
(* into the pattern.                                                        *)

JsonSizes == {0, 2, 3}

InitJson ==
  /\ size \in JsonSizes
  /\ cells \in AllPatterns(size)
  /\ speed = MinSpeed
  /\ isRunning = FALSE
  /\ generationNumber \in 0..MaxGen
  /\ nextGenerationTimerId = IF generationNumber = 0 THEN -1 ELSE 1
  /\ timers = {}
  /\ stack = <<>>
  /\ called = "toggleCell"
  /\ result = "ignored"
  /\ emitted = <<>>
  /\ payload = <<>>
  /\ returned = <<>>
  /\ scenario = "off"
  /\ toggles = <<>>
  /\ held = <<>>
  /\ given = <<3>>
  /\ subscribers = <<>>
  /\ emitting = <<>>

NextJson ==
  \/ ExportToJson
  \/ LoadExported

SpecJson == InitJson /\ [][NextJson]_vars

----------------------------------------------------------------------------
(* toggleCell at every position in and around the grid of a new Game(3) *)

NextToggle ==
  \E line \in -1..size : \E column \in -1..size : ToggleCell(line, column)

SpecToggle == Init /\ [][NextToggle]_vars

----------------------------------------------------------------------------
(* A caller keeps the array getCells() returned while the engine is used    *)
(* from the top level.                                                      *)

NextHeld ==
  \/ TopLevel /\ GetCells
  \/ TopLevel /\ Start
  \/ StartAdvance
  \/ NextGenerationReturn
  \/ TimerFires
  \/ TopLevel /\ Stop
  \/ TopLevel /\ \E arg \in ResetArgs : Reset(arg)
  \/ TopLevel /\ Randomize
  \/ TopLevel /\ \E pos \in TogglePositions : ToggleCell(pos[1], pos[2])
  \/ TopLevel /\ \E data \in LoadArgs : LoadFromJson(data)

SpecHeld == Init /\ [][NextHeld]_vars

----------------------------------------------------------------------------
(* randomize with every outcome, on a new Game(3) and on one that has been  *)
(* started, run for RanGenerations generations with all cells dead, and     *)
(* stopped (which leaves the handle of the cleared timer).                  *)

RanGenerations == 2

InitRandom ==
  /\ given = <<3>>
  /\ size = 3
  /\ speed = MinSpeed
  /\ cells = InitCells(size)
  /\ isRunning = FALSE
  /\ generationNumber \in {0, RanGenerations}
  /\ nextGenerationTimerId = IF generationNumber = 0 THEN -1 ELSE 1
  /\ timers = {}
  /\ stack = <<>>
  /\ called = IF generationNumber = 0 THEN "constructor" ELSE "stop"
  /\ result = "ok"
  /\ emitted = IF generationNumber = 0 THEN <<>> ELSE <<"Stopped">>
  /\ payload = IF generationNumber = 0 THEN <<>> ELSE << <<>> >>
  /\ returned = <<>>
  /\ scenario = IF generationNumber = 0 THEN "fresh" ELSE "off"
  /\ toggles = <<>>
  /\ held = <<>>
  /\ subscribers = <<>>
  /\ emitting = <<>>

NextRandom == RandomizeAny

SpecRandom == InitRandom /\ [][NextRandom]_vars

----------------------------------------------------------------------------
(* new Game() and new Game(size), lines 135-151: the constructor tests      *)
(* nothing, and 0 is not nullish.  The cells of the new engine are then     *)
(* toggled at a few positions.                                              *)

CtorArgs == {<<>>, <<0>>, <<3>>, <<4>>}

CtorToggles == {<<0, 0>>, <<0, 1>>, <<1, 0>>, <<2, 2>>, <<3, 3>>, <<127, 127>>}

InitCtor ==
  /\ given \in CtorArgs
  /\ size = CtorSize(given)
  /\ speed = MinSpeed
  /\ cells = InitCells(size)
  /\ isRunning = FALSE
  /\ nextGenerationTimerId = -1
  /\ generationNumber = 0
  /\ timers = {}
  /\ stack = <<>>
  /\ called = "constructor"
  /\ result = "ok"
  /\ emitted = <<>>
  /\ payload = <<>>
  /\ returned = <<>>
  /\ scenario = "fresh"
  /\ toggles = <<>>
  /\ held = <<>>
  /\ subscribers = <<>>
  /\ emitting = <<>>

NextCtor == \E pos \in CtorToggles : ToggleCell(pos[1], pos[2])

SpecCtor == InitCtor /\ [][NextCtor]_vars

----------------------------------------------------------------------------
(* class EventEmitter, src/src/core/events.ts.  An emit in progress is a    *)
(* frame: array is the array object forEach iterates, length its length     *)
(* when forEach began, next the index forEach visits next (counted from 1), *)
(* same whether this.subscribers is still that object.  The callback        *)
(* invoked last is running while its frame is innermost, and what it calls  *)
(* are the steps taken meanwhile.  History: registered is the subscribers   *)
(* when the emit began, invoked the callbacks it has invoked, changed       *)
(* whether a callback has subscribed or unsubscribed during it.             *)

Callbacks == {"a", "b"}

\* this.subscribers.push(subscriber): the array object is updated in place
Subscribe(subscriber) ==
  /\ Len(subscribers) < MaxSubscribers
  /\ subscribers' = Append(subscribers, subscriber)
  /\ emitting' = [i \in DOMAIN emitting |->
                    [emitting[i] EXCEPT
                       !.array = IF emitting[i].same THEN Append(@, subscriber) ELSE @,
                       !.changed = TRUE]]
  /\ UNCHANGED gameVars

\* mutant: one registration of the subscriber is removed, the first
Unsubscribe_First(subscriber) ==
  LET found == {i \in DOMAIN subscribers : subscribers[i] = subscriber}
      first == CHOOSE i \in found : \A j \in found : i <= j
  IN  /\ subscribers' = IF found = {} THEN subscribers
                         ELSE SubSeq(subscribers, 1, first - 1)
                                \o SubSeq(subscribers, first + 1, Len(subscribers))
      /\ emitting' = [i \in DOMAIN emitting |->
                        [emitting[i] EXCEPT !.same = FALSE, !.changed = TRUE]]
      /\ UNCHANGED gameVars

\* mutant: the subscriber is removed from the array object in place
Unsubscribe_InPlace(subscriber) ==
  LET Keep(s) == s # subscriber
  IN  /\ subscribers' = SelectSeq(subscribers, Keep)
      /\ emitting' = [i \in DOMAIN emitting |->
                        [emitting[i] EXCEPT
                           !.array = IF emitting[i].same THEN SelectSeq(@, Keep) ELSE @,
                           !.changed = TRUE]]
      /\ UNCHANGED gameVars

\* this.subscribers = this.subscribers.filter(...): a new array object
Unsubscribe(subscriber) ==
  LET Keep(s) == s # subscriber
  IN  /\ subscribers' = SelectSeq(subscribers, Keep)
      /\ emitting' = [i \in DOMAIN emitting |->
                        [emitting[i] EXCEPT !.same = FALSE, !.changed = TRUE]]
      /\ UNCHANGED gameVars

\* mutant: each iteration reads this.subscribers again
IteratedArray_Reread(frame) == subscribers

\* forEach keeps the array object it was called on
IteratedArray(frame) == frame.array

\* forEach visits the indices below the length it began with that the array
\* has
Visits(frame) ==
  frame.next <= frame.length /\ frame.next \in DOMAIN IteratedArray(frame)

\* emit(event): forEach begins and invokes the first subscriber; with no
\* subscriber it returns at once
EmitBegin ==
  /\ Len(emitting) < MaxEmitDepth
  /\ IF subscribers = <<>>
       THEN UNCHANGED emitting
       ELSE emitting' = Append(emitting,
              [array |-> subscribers, length |-> Len(subscribers), next |-> 2,
               same |-> TRUE, registered |-> subscribers,
               invoked |-> <<subscribers[1]>>, changed |-> FALSE])
  /\ UNCHANGED <<subscribers, gameVars>>

\* the running callback returns and forEach invokes the next one
EmitInvoke ==
  /\ emitting # <<>>
  /\ LET frame == emitting[Len(emitting)]
     IN  /\ Visits(frame)
         /\ emitting' = [emitting EXCEPT
               ![Len(emitting)].invoked = Append(@, IteratedArray(frame)[frame.next]),
               ![Len(emitting)].next = @ + 1]
  /\ UNCHANGED <<subscribers, gameVars>>

\* the last callback returns, forEach is done and emit returns
EmitReturn ==
  /\ emitting # <<>>
  /\ ~Visits(emitting[Len(emitting)])
  /\ emitting' = SubSeq(emitting, 1, Len(emitting) - 1)
  /\ UNCHANGED <<subscribers, gameVars>>

NextEmitter ==
  \/ \E subscriber \in Callbacks : Subscribe(subscriber)
  \/ \E subscriber \in Callbacks : Unsubscribe(subscriber)
  \/ EmitBegin
  \/ EmitInvoke
  \/ EmitReturn

SpecEmitter == Init /\ [][NextEmitter]_vars

----------------------------------------------------------------------------
(* Properties *)

\* a step that advances one generation (nextGeneration up to its emit)
AdvanceStep ==
  /\ generationNumber' = generationNumber + 1
  /\ emitted' = <<"NewGeneration">>

AliveIds(cs) == {cs[i].id : i \in {j \in DOMAIN cs : cs[j].isAlive}}

\* C1: once the engine is Idle (stop() has set isRunning to false) no
\* generation advance executes until start() is called again, whatever the
\* subscribers call from their callbacks.
C1_NoAdvanceWhileIdle == [][~isRunning => ~AdvanceStep]_vars

MutatorCall ==
  \/ \E arg \in ResetArgs : Reset(arg)
  \/ Randomize
  \/ \E pos \in TogglePositions : ToggleCell(pos[1], pos[2])
  \/ \E data \in LoadArgs : LoadFromJson(data)

\* C2: while isRunning, reset, randomize, toggleCell and loadFromJson, for
\* every argument, return early: size, cells, generationNumber, speed,
\* isRunning and the pending timer are unchanged and nothing is emitted.
C2_MutatorsIgnoredWhileRunning ==
  [][(isRunning /\ MutatorCall) =>
       (UNCHANGED engine /\ emitted' = <<>> /\ result' = "ignored")]_vars

C2_Witness ==
  /\ isRunning
  /\ timers # {}
  /\ called \in {"reset", "randomize", "toggleCell", "loadFromJson"}
  /\ result = "ignored"

\* two cells are neighbours when they differ and are at most one line and
\* one column apart
Adjacent(a, b) ==
  /\ a.id # b.id
  /\ a.line - b.line \in {-1, 0, 1}
  /\ a.column - b.column \in {-1, 0, 1}

LiveNeighbours(cs, i) ==
  Cardinality({j \in DOMAIN cs : Adjacent(cs[i], cs[j]) /\ cs[j].isAlive})

LifeRule(cs, i) ==
  IF cs[i].isAlive THEN LiveNeighbours(cs, i) \in {2, 3}
                   ELSE LiveNeighbours(cs, i) = 3

\* C3: a generation advance makes cell (r,c) alive iff, in the grid before
\* the advance, it was alive with 2 or 3 alive neighbours or dead with exactly
\* 3; on 3x3, (0,0),(0,2),(1,2) steps to exactly (0,1),(1,1).
C3_SynchronousRule ==
  [][AdvanceStep =>
       /\ DOMAIN cells' = DOMAIN cells
       /\ \A i \in DOMAIN cells : cells'[i].isAlive = LifeRule(cells, i)
       /\ (size = 3 /\ AliveIds(cells) = ExamplePattern) => AliveIds(cells') = {1, 4}
    ]_vars

C3_Witness ==
  /\ size = 3
  /\ emitted = <<"NewGeneration">>
  /\ generationNumber = 1
  /\ AliveIds(cells) = {1, 4}

StartCall == ~isRunning /\ Start
StartReturn == NextGenerationReturn /\ Top.op = "start" /\ ~Top.nested

\* C5: start() called while Idle sets isRunning, emits Started, and when it
\* returns generationNumber is the value at the call plus 1 and exactly one
\* further advance is scheduled.
C5_StartContract ==
  [][/\ StartCall => (isRunning' /\ emitted' = <<"Started">>)
     /\ StartReturn => /\ generationNumber' = Top.gen0 + 1
                       /\ Cardinality(timers') = 1
    ]_vars

\* C6: start() while Running and stop() while Idle change nothing: no
\* advance is begun and neither Started nor Stopped is emitted.
C6_RedundantStartStop ==
  [][((isRunning /\ Start) \/ (~isRunning /\ Stop)) =>
       (UNCHANGED <<engine, stack>> /\ emitted' = <<>> /\ result' = "ignored")]_vars

C6_Witness ==
  /\ isRunning
  /\ timers # {}
  /\ called = "start"
  /\ result = "ignored"

\* C7: on a fresh engine, after start() and then stop() before the timer
\* fires, generationNumber is 1 and stays 1 however many timer ticks pass,
\* and no NewGeneration is emitted any more.
C7_StartThenStop ==
  scenario = "stopped" =>
    /\ generationNumber = 1
    /\ ~isRunning
    /\ emitted # <<"NewGeneration">>

C7_Witness == scenario = "stopped" /\ called = "stop" /\ result = "ok"

\* C8: reset(size) while Idle with size < 3 or size > 1024, 0 and negative
\* values included, raises an error, leaves size, cells and generationNumber
\* as they were and emits nothing.
C8_ResetRejectsOutOfRange ==
  [][\A arg \in ResetArgs :
       (/\ ~isRunning
        /\ arg # <<>>
        /\ (arg[1] < MinSize \/ arg[1] > MaxSize)
        /\ Reset(arg))
       => /\ result' = "error"
          /\ emitted' = <<>>
          /\ UNCHANGED <<size, cells, generationNumber>>
    ]_vars

\* the grid of n*n dead cells, ids 0..n*n-1 in order, row-major
IsFreshGrid(cs, n) ==
  /\ Len(cs) = n * n
  /\ \A i \in 1..(n * n) :
       cs[i] = [id |-> i - 1, line |-> (i - 1) \div n, column |-> (i - 1) % n,
                isAlive |-> FALSE]

\* C9: for every size n that reset accepts, after reset(n) while Idle the
\* size is n, the grid is the fresh n x n grid and generationNumber is 0;
\* reset() does the same with the current size.
C9_ResetGrid ==
  [][\A arg \in ResetArgs :
       (~isRunning /\ ~ResetRejects(arg) /\ Reset(arg)) =>
         LET n == IF arg = <<>> THEN size ELSE arg[1]
         IN  /\ size' = n
             /\ IsFreshGrid(cells', n)
             /\ generationNumber' = 0
    ]_vars

C9_Witness ==
  /\ called = "reset"
  /\ result = "ok"
  /\ emitted = <<"Reset", "GridChanged">>
  /\ size = 3
  /\ Len(cells) = 9

\* C10: MinSize <= size <= MaxSize in every reachable state.
C10_SizeInBounds == MinSize <= size /\ size <= MaxSize

\* the grid holds n*n cells and the cell at index i has id i, row i div n
\* and column i mod n
WellFormedGrid(cs, n) ==
  /\ Len(cs) = n * n
  /\ \A i \in 1..Len(cs) :
       /\ cs[i].id = i - 1
       /\ cs[i].line = (i - 1) \div n
       /\ cs[i].column = (i - 1) % n

LoadsMalformed ==
  \E data \in LoadArgsApi :
    /\ ~LoadRejects(data)
    /\ ~WellFormedGrid(data.cells[1], data.size[1])
    /\ LoadFromJson(data)

C12_ChangeSpeed ==
  /\ (MinSpeed <= speed /\ speed <= MaxSpeed)
  /\ [][/\ (MinSpeed <= speed' /\ speed' <= MaxSpeed)
         /\ \A v \in SpeedArgsApi :
              ChangeSpeed(v) =>
                IF v < MinSpeed \/ v > MaxSpeed
                  THEN /\ result' = "error"
                       /\ speed' = speed
                       /\ emitted' = <<>>
                  ELSE /\ result' = "ok"
                       /\ speed' = v
                       /\ emitted' = <<"SpeedChanged">>
                       /\ payload' = << <<v>> >>
       ]_vars

C12_Witness ==
  /\ called = "changeSpeed"
  /\ result = "ok"
  /\ speed = MaxSpeed
  /\ emitted = <<"SpeedChanged">>
  /\ payload = << <<MaxSpeed>> >>

\* C13: while Idle, toggleCell(r,c) applied twice to a valid position gives
\* the cell at (r,c) its original alive flag again, and after one or two
\* toggles every other cell has its original alive flag.
C13_ToggleTwice ==
  toggles # <<>> =>
    LET t == toggles[1]
    IN  /\ DOMAIN cells = DOMAIN t.cells0
        /\ \A i \in DOMAIN cells :
             IF cells[i].line = t.line /\ cells[i].column = t.column
               THEN cells[i].isAlive = IF t.count = 2 THEN t.cells0[i].isAlive
                                                      ELSE ~t.cells0[i].isAlive
               ELSE cells[i].isAlive = t.cells0[i].isAlive

C13_Witness ==
  /\ toggles # <<>>
  /\ toggles[1].count = 2
  /\ toggles[1].line = 2
  /\ toggles[1].column = 1
  /\ AliveIds(cells) = {0, 7}

InGrid(r, c) == 0 <= r /\ r < size /\ 0 <= c /\ c < size

\* C14: isValidPosition(row, col) is true iff 0 <= row < size and
\* 0 <= col < size, and toggleCell at a position where it is false changes no
\* cell and no other state, raises no error and emits nothing.
C14_InvalidToggle ==
  [][\A r \in -1..size : \A c \in -1..size :
       /\ IsValidPosition(size, r, c) <=> InGrid(r, c)
       /\ (~InGrid(r, c) /\ ToggleCell(r, c)) =>
            /\ UNCHANGED engine
            /\ result' = "ignored"
            /\ emitted' = <<>>
    ]_vars

C14_Witness ==
  /\ called = "toggleCell"
  /\ result = "ignored"
  /\ ~isRunning
  /\ AliveIds(cells) = {0, 7}

\* C15: for every size and pattern, and whatever generationNumber was,
\* loadFromJson(exportToJson()) while Idle leaves size and every cell's id,
\* row, column and alive flag as they were before the export, and sets
\* generationNumber to 0.
C15_RoundTrip ==
  [][/\ ExportToJson => UNCHANGED engine
     /\ LoadExported =>
          /\ result' = "ok"
          /\ size' = size
          /\ Len(cells') = Len(cells)
          /\ \A i \in DOMAIN cells :
               /\ cells'[i].id = cells[i].id
               /\ cells'[i].line = cells[i].line
               /\ cells'[i].column = cells[i].column
               /\ cells'[i].isAlive = cells[i].isAlive
          /\ cells' = cells
          /\ generationNumber' = 0
    ]_vars

\* the stale timer handle tells that generations had been run before
C15_Witness ==
  /\ called = "loadFromJson"
  /\ result = "ok"
  /\ size = 3
  /\ AliveIds(cells) = ExamplePattern
  /\ generationNumber = 0
  /\ nextGenerationTimerId = 1

\* C16: loadFromJson while Idle with a snapshot that lacks the size field or
\* the cells field raises an error, leaves size, cells and generationNumber
\* unchanged and emits neither Reset nor GridChanged.
C16_LoadRejectsMissingField ==
  [][\A data \in LoadArgs :
       (/\ ~isRunning
        /\ (data.size = <<>> \/ data.cells = <<>>)
        /\ LoadFromJson(data))
       => /\ result' = "error"
          /\ emitted' = <<>>
          /\ UNCHANGED <<size, cells, generationNumber>>
    ]_vars

C16_Witness ==
  /\ called = "loadFromJson"
  /\ result = "error"
  /\ ~isRunning
  /\ generationNumber = 1
  /\ AliveIds(cells) # {}

IdsOf(cellSeq) == {cellSeq[i].id : i \in DOMAIN cellSeq}

\* C17: every generation advance emits exactly one NewGeneration; its
\* bornCells are exactly the cells dead before and alive after the advance,
\* its killedCells exactly the cells alive before and dead after, the two
\* are disjoint, and its generationNumber is the counter after the increment.
C17_NewGenerationEvent ==
  [][generationNumber' = generationNumber + 1 =>
       /\ emitted' = <<"NewGeneration">>
       /\ Len(payload') = 1
       /\ LET event == payload'[1][1]
          IN  /\ event.generationNumber = generationNumber'
              /\ IdsOf(event.bornCells) =
                   {cells[i].id : i \in {j \in DOMAIN cells :
                                           ~cells[j].isAlive /\ cells'[j].isAlive}}
              /\ IdsOf(event.killedCells) =
                   {cells[i].id : i \in {j \in DOMAIN cells :
                                           cells[j].isAlive /\ ~cells'[j].isAlive}}
              /\ Cardinality(IdsOf(event.bornCells)) = Len(event.bornCells)
              /\ Cardinality(IdsOf(event.killedCells)) = Len(event.killedCells)
              /\ IdsOf(event.bornCells) \cap IdsOf(event.killedCells) = {}
    ]_vars

C17_Witness ==
  /\ emitted = <<"NewGeneration">>
  /\ size = 3
  /\ generationNumber = 1
  /\ IdsOf(payload[1][1].bornCells) = {1, 4}
  /\ IdsOf(payload[1][1].killedCells) = {0, 2, 5}
  /\ AliveIds(cells) = {1, 4}

\* C18: generationNumber is 0 at construction, increases by exactly 1 on
\* each generation advance, becomes 0 on each successful reset and load, and
\* is changed by no other operation (start and stop themselves, toggleCell,
\* randomize, changeSpeed, exportToJson, rejected and ignored calls).
C18_GenerationCounter ==
  /\ generationNumber = 0
  /\ [][LET advance == StartAdvance \/ TimerFires
             zeroed == /\ result' = "ok"
                       /\ \/ \E arg \in ResetArgsApi : Reset(arg)
                          \/ \E data \in LoadArgsApi : LoadFromJson(data)
         IN  generationNumber' = IF advance THEN generationNumber + 1
                                 ELSE IF zeroed THEN 0
                                 ELSE generationNumber
       ]_vars

C18_Witness ==
  /\ called = "exportToJson"
  /\ result = "ok"
  /\ isRunning
  /\ generationNumber = 2

OnBorder(k) == k = 0 \/ k = size - 1

\* C19: the count countAliveNeighbours(cell) that a generation advance uses
\* for each cell is the number of alive cells among the cells at most one
\* row and one column away, without wraparound: at most 3 for a corner cell
\* and 5 for an edge cell; on 3x3 with (0,0) and (0,1) alive, (0,2) counts 1
\* and (1,1) counts 2.
C19_NeighbourCount ==
  [][AdvanceStep =>
       /\ \A i \in DOMAIN cells :
            \A count \in {CountAliveNeighbours(cells, size, cells[i])} :
              /\ count = LiveNeighbours(cells, i)
              /\ (OnBorder(cells[i].line) /\ OnBorder(cells[i].column)) => count <= 3
              /\ (OnBorder(cells[i].line) \/ OnBorder(cells[i].column)) => count <= 5
       /\ (size = 3 /\ AliveIds(cells) = {0, 1}) =>
            /\ CountAliveNeighbours(cells, size, cells[3]) = 1
            /\ CountAliveNeighbours(cells, size, cells[5]) = 2
    ]_vars

\* the advance of the row (0,0),(0,1),(0,2): the corner cells die with one
\* neighbour each, (1,1) is born with three
C19_Witness ==
  /\ size = 3
  /\ generationNumber = 1
  /\ emitted = <<"NewGeneration">>
  /\ IdsOf(payload[1][1].killedCells) = {0, 2}
  /\ AliveIds(cells) = {1, 4}
  /\ CountAliveNeighbours(cells, size, cells[1]) = 2

\* while an emit is in progress the callbacks it has invoked are the first
\* of those registered at its start, in order
InvokedInOrder(ems) ==
  \A i \in DOMAIN ems :
    /\ ems[i].next - 1 <= Len(ems[i].registered)
    /\ ems[i].invoked = SubSeq(ems[i].registered, 1, ems[i].next - 1)

\* C20: emit invokes every subscriber that is registered when the emit
\* starts, in the order in which they subscribed, before it returns, and
\* none that was unsubscribed before it started, whatever the callbacks
\* subscribe, unsubscribe or emit meanwhile.
C20_EmitDelivery ==
  /\ InvokedInOrder(emitting)
  /\ [][/\ InvokedInOrder(emitting')
         /\ EmitReturn =>
              emitting[Len(emitting)].invoked = emitting[Len(emitting)].registered
       ]_vars

\* an emit about to return: registered were b, a, b; a callback has
\* unsubscribed b and subscribed a meanwhile
C20_Witness ==
  /\ Len(emitting) = 1
  /\ emitting[1].next > emitting[1].length
  /\ emitting[1].invoked = <<"b", "a", "b">>
  /\ emitting[1].changed
  /\ subscribers = <<"a", "a">>

\* C21: a newly constructed engine is Idle with generationNumber 0, speed
\* MinSpeed = 1, the size given (DefaultSize = 128 when none is given), a
\* grid of size*size dead cells with row-major ids, and no scheduled advance.
C21_Constructed ==
  called = "constructor" =>
    /\ ~isRunning
    /\ generationNumber = 0
    /\ speed = 1
    /\ size = (IF given = <<>> THEN 128 ELSE given[1])
    /\ IsFreshGrid(cells, size)
    /\ timers = {}
    /\ nextGenerationTimerId = -1
    /\ emitted = <<>>

C21_Witness ==
  /\ called = "constructor"
  /\ given = <<>>
  /\ size = 128
  /\ Len(cells) = 16384
  /\ cells[16384] = [id |-> 16383, line |-> 127, column |-> 127, isAlive |-> FALSE]

\* C22: toggleCell, randomize and a generation advance change alive flags
\* inside the same grid sequence: the sequence getCells() returned before
\* them is still the engine's grid afterwards and shows the state after the
\* operation at every index; only reset and load replace the sequence.
C22_SameSequence ==
  held # <<>> =>
    IF held[1].replaced
      THEN ~held[1].same
      ELSE held[1].same /\ held[1].cells = cells

\* C23: exportToJson() succeeds in both Idle and Running, returns a snapshot
\* holding the current size and the current cells, and changes nothing:
\* isRunning, the pending timer, generationNumber, speed, size and cells are
\* unchanged and no notification is emitted.
C23_ExportChangesNothing ==
  [][ExportToJson =>
       /\ result' = "ok"
       /\ returned' # <<>>
       /\ JsonParse(returned'[1]) = [size |-> <<size>>, cells |-> <<cells>>]
       /\ UNCHANGED <<isRunning, nextGenerationTimerId, timers, generationNumber,
                      speed, size, cells>>
       /\ emitted' = <<>>
    ]_vars

C23_Witness ==
  /\ called = "exportToJson"
  /\ result = "ok"
  /\ isRunning
  /\ Cardinality(timers) = 1
  /\ speed = 2
  /\ AliveIds(cells) # {}
  /\ returned # <<>>
  /\ JsonParse(returned[1]).cells = <<cells>>

\* no method and no callback is executing
Quiescent == Len(stack) = 0

\* C24: a generation advance arms the next timer only if the engine is
\* still Running once NewGeneration has been delivered (not if a subscriber
\* of onStart or onNewGeneration has called stop() during the advance), so
\* in every quiescent state a pending scheduled advance implies isRunning.
C24_ArmsOnlyWhileRunning ==
  /\ (Quiescent /\ timers # {}) => isRunning
  /\ [][(NextGenerationReturn /\ ~isRunning) => UNCHANGED timers]_vars

\* C25: changeSpeed(v) with valid v succeeds in both Idle and Running and
\* changes only speed: isRunning, cells and generationNumber are unchanged,
\* a pending scheduled advance is neither cancelled nor re-armed and keeps
\* the delay 1000/speed computed when it was scheduled; the new speed
\* determines the delay only of the advances scheduled afterwards.
C25_ChangeSpeedFrame ==
  [][/\ \A v \in SpeedArgsApi :
          (ChangeSpeed(v) /\ MinSpeed <= v /\ v <= MaxSpeed) =>
            /\ result' = "ok"
            /\ speed' = v
            /\ UNCHANGED <<isRunning, cells, size, generationNumber, timers,
                           nextGenerationTimerId>>
     /\ NextGenerationReturn =>
          /\ timers \subseteq timers'
          /\ Cardinality(timers' \ timers) = 1
          /\ \A t \in timers' \ timers :
               t.delay * speed = 1000 /\ t.id = nextGenerationTimerId'
    ]_vars

\* the speed was changed while an advance scheduled at speed 1 is pending
C25_Witness ==
  /\ called = "changeSpeed"
  /\ result = "ok"
  /\ isRunning
  /\ speed = 100
  /\ timers = {[id |-> nextGenerationTimerId, delay |-> 1000]}

\* ... and an advance scheduled afterwards waits 1000/100
C25_WitnessAfterwards ==
  /\ isRunning
  /\ speed = 100
  /\ timers = {[id |-> nextGenerationTimerId, delay |-> 10]}

\* C26: toggleCell(r,c) while Idle at a valid position emits exactly one
\* CellChanged whose payload is the cell (r,c) carrying its new alive flag,
\* and leaves size, speed, generationNumber and isRunning unchanged.
C26_ToggleEvent ==
  [][\A r \in -1..size : \A c \in -1..size :
       (~isRunning /\ InGrid(r, c) /\ ToggleCell(r, c)) =>
         /\ result' = "ok"
         /\ emitted' = <<"CellChanged">>
         /\ payload' = << <<[id |-> r * size + c, line |-> r, column |-> c,
                             isAlive |-> ~cells[r * size + c + 1].isAlive]>> >>
         /\ payload'[1][1] = cells'[r * size + c + 1]
         /\ UNCHANGED <<size, speed, generationNumber, isRunning>>
    ]_vars

\* (2,1) toggled back to dead while (0,0) is alive
C26_Witness ==
  /\ called = "toggleCell"
  /\ result = "ok"
  /\ emitted = <<"CellChanged">>
  /\ payload = << <<[id |-> 7, line |-> 2, column |-> 1, isAlive |-> FALSE]>> >>
  /\ AliveIds(cells) = {0}

\* C27: randomize() while Idle may set any of the 2^(size*size) alive
\* patterns, changes only alive flags (the number of cells and every cell's
\* id, row and column are unchanged), does not reset generationNumber, leaves
\* size, speed and isRunning unchanged, and emits exactly one GridChanged and
\* no Reset.
C27_Randomize ==
  /\ []((~isRunning /\ TopLevel) =>
          \A alive \in [DOMAIN cells -> BOOLEAN] :
            /\ alive \in RandomOutcomes(cells)
            /\ ENABLED (RandomizeTo({alive}) /\ AliveIds(cells') = {i - 1 : i \in {j \in DOMAIN alive : alive[j]}}))
  /\ [][(/\ ~isRunning
          /\ called' = "randomize"
          /\ RandomizeTo({[i \in DOMAIN cells |-> cells'[i].isAlive]})) =>
          /\ result' = "ok"
          /\ DOMAIN cells' = DOMAIN cells
          /\ \A i \in DOMAIN cells :
               /\ cells'[i].id = cells[i].id
               /\ cells'[i].line = cells[i].line
               /\ cells'[i].column = cells[i].column
          /\ UNCHANGED <<generationNumber, size, speed, isRunning, timers>>
          /\ emitted' = <<"GridChanged">>
          /\ payload' = << <<[cells |-> cells', size |-> size]>> >>
       ]_vars

\* after two generations, stopped, the grid is randomized to the pattern of
\* the cells 0, 2 and 5
C27_Witness ==
  /\ called = "randomize"
  /\ result = "ok"
  /\ generationNumber = 2
  /\ AliveIds(cells) = ExamplePattern
  /\ emitted = <<"GridChanged">>

\* C28: whenever the engine is Running and no operation or callback is
\* executing, exactly one scheduled advance is pending (so that, if stop()
\* is never called and the timer fires, the generations go on).
C28_OnePendingWhileRunning ==
  (isRunning /\ Quiescent) => Cardinality(timers) = 1

\* C29: within one operation the notifications are ordered: start() emits
\* Started before the first NewGeneration; a successful reset() and a
\* successful loadFromJson() each emit exactly one Reset and then exactly one
\* GridChanged carrying the new size and grid; stop() from Running emits
\* exactly one Stopped after isRunning has become false.
C29_NotificationOrder ==
  [][/\ (~isRunning /\ Start) =>
          /\ emitted' = <<"Started">>
          /\ generationNumber' = generationNumber
          /\ stack'[Len(stack')].pc = "onStart"
     /\ StartAdvance =>
          /\ emitted' = <<"NewGeneration">>
          /\ called = "start"
     /\ (/\ result' = "ok"
         /\ \/ \E arg \in ResetArgsApi : Reset(arg)
            \/ \E data \in LoadArgsApi : LoadFromJson(data)) =>
          /\ emitted' = <<"Reset", "GridChanged">>
          /\ payload' = << <<>>, <<[size |-> size', cells |-> cells']>> >>
     /\ (isRunning /\ Stop) =>
          /\ emitted' = <<"Stopped">>
          /\ ~isRunning'
    ]_vars

\* a load of the snapshot of a 2x2 grid
C29_Witness ==
  /\ called = "loadFromJson"
  /\ result = "ok"
  /\ emitted = <<"Reset", "GridChanged">>
  /\ payload = << <<>>, <<[size |-> 2, cells |-> InitCells(2)]>> >>
  /\ size = 2

\* C30: an emit delivers to exactly the subscribers registered when it
\* started, even if the set changes during it: a subscriber unsubscribed by
\* an earlier callback of the same emit still receives the event, one added
\* during the emit does not, and both changes take effect for the next emit.
C30_EmitSnapshot ==
  [][/\ (EmitBegin /\ subscribers # <<>>) =>
          /\ emitting'[Len(emitting')].registered = subscribers
          /\ emitting'[Len(emitting')].invoked = <<subscribers[1]>>
     /\ EmitInvoke =>
          LET frame == emitting[Len(emitting)]
          IN  /\ frame.next <= Len(frame.registered)
              /\ emitting'[Len(emitting')].invoked =
                   Append(frame.invoked, frame.registered[frame.next])
     /\ EmitReturn =>
          LET frame == emitting[Len(emitting)]
          IN  Len(frame.invoked) = Len(frame.registered)
    ]_vars

\* an emit to a and b about to return, both having received the event,
\* while b has been unsubscribed and a subscribed once more during it
C30_Witness ==
  /\ Len(emitting) = 1
  /\ emitting[1].registered = <<"a", "b">>
  /\ emitting[1].invoked = <<"a", "b">>
  /\ emitting[1].next = 3
  /\ emitting[1].changed
  /\ subscribers = <<"a", "a">>

\* C31: stop() from Running changes only isRunning and the pending timer:
\* cells, size, speed and generationNumber are unchanged, and a later start()
\* resumes from that same grid and counter, performing an immediate advance
\* to generationNumber + 1.
C31_StopKeepsGrid ==
  [][/\ (isRunning /\ Stop) =>
          /\ UNCHANGED <<cells, size, speed, generationNumber>>
          /\ ~isRunning'
          /\ timers' = {t \in timers : t.id # nextGenerationTimerId}
     /\ (~isRunning /\ Start) =>
          /\ UNCHANGED <<cells, size, speed, generationNumber>>
          /\ stack'[Len(stack')].gen0 = generationNumber
     /\ StartAdvance =>
          /\ generationNumber' = Top.gen0 + 1
          /\ DOMAIN cells' = DOMAIN cells
          /\ WellFormedGrid(cells, size) =>
               \A i \in DOMAIN cells : cells'[i].isAlive = LifeRule(cells, i)
    ]_vars

\* the second start() has returned: the grid 1, 3, 5, 7 that the first
\* advance made of 0, 2, 4, 6, 8 was advanced again, to itself
C31_Witness ==
  /\ called = "start"
  /\ result = "ok"
  /\ Quiescent
  /\ isRunning
  /\ generationNumber = 2
  /\ AliveIds(cells) = {1, 3, 5, 7}
  /\ Cardinality(timers) = 1

\* how many times callback s occurs in a sequence of callbacks
Registrations(seq, s) == Cardinality({i \in DOMAIN seq : seq[i] = s})

\* C32: subscribing the same callback k times to one emitter makes each
\* emit invoke it k times, and a single unsubscribe of that callback removes
\* all k registrations, after which no later emit invokes it; unsubscribing
\* a callback that is not registered changes nothing.
C32_Registrations ==
  [][\A s \in Callbacks :
       /\ (Subscribe(s) /\ Len(subscribers) < MaxSubscribers) =>
            /\ Registrations(subscribers', s) = Registrations(subscribers, s) + 1
            /\ \A other \in Callbacks \ {s} :
                 Registrations(subscribers', other) = Registrations(subscribers, other)
       /\ Unsubscribe(s) =>
            /\ Registrations(subscribers', s) = 0
            /\ \A other \in Callbacks \ {s} :
                 Registrations(subscribers', other) = Registrations(subscribers, other)
            /\ Registrations(subscribers, s) = 0 => subscribers' = subscribers
       /\ (EmitBegin /\ subscribers # <<>>) =>
            Registrations(emitting'[Len(emitting')].registered, s) =
              Registrations(subscribers, s)
       /\ EmitReturn =>
            Registrations(emitting[Len(emitting)].invoked, s) =
              Registrations(emitting[Len(emitting)].registered, s)
    ]_vars

\* an emit about to return has invoked a twice and b once; meanwhile a
\* callback has unsubscribed a, which has left b alone
C32_Witness ==
  /\ Len(emitting) = 1
  /\ emitting[1].registered = <<"a", "b", "a">>
  /\ emitting[1].invoked = <<"a", "b", "a">>
  /\ emitting[1].next = 4
  /\ subscribers = <<"b">>

====
